---- MODULE Spec2Model ----
(***************************************************************************)
(* Ticket triage agent: the LangGraph pipeline of agent/graph.py           *)
(* (search_kb -> analyze -> {END | classify} -> END), the retry wrapper of *)
(* agent/utils.py that guards every completion call, and the callers of    *)
(* agent/orchestrator.py and app/main.py.                                  *)
(*                                                                         *)
(* Texts are sequences of tokens (one-character strings, or one string for *)
(* a literal of the source that is only ever handled as a whole).  Python  *)
(* dicts are functions whose DOMAIN is the set of keys present.            *)
(***************************************************************************)
EXTENDS Integers, Sequences, FiniteSets, TLC

\* ------------------------------------------------------------------ bounds
\* Longest answer of the completion service to analyze, in tokens.
MaxContentLen == 3
\* The long tickets have SUMMARY_LEN up to SUMMARY_LEN + MaxOverflow characters.
MaxOverflow == 1

\* The settings a direct call of the retry wrapper is tried with have up to
\* MaxRetries retries.
MaxRetries == 3
MaxEntries == 3

\* ------------------------------------------------------- program constants
\* DevelopmentSettings.MAX_RETRIES, the settings get_settings() returns by default.
MAX_RETRIES == 2
\* Settings.RETRY_DELAY, in milliseconds.
RETRY_DELAY == 1000
\* Settings.RETRY_BACKOFF.
RETRY_BACKOFF == 2
\* full_context[:100] in the fallback classifications.
SUMMARY_LEN == 100
\* "known_issue (if similarity > 0.5)", in thousandths.
KNOWN_THRESHOLD == 500
MAX_DESCRIPTION_LENGTH == 5000

\* The thread ids the checkpointer holds.  Every action reads and writes the
\* record of its own thread id only.
Threads == {1}

\* -------------------------------------------------------------------- text
EmptyText == <<>>

\* Python truthiness of a str (None, the value of .get on an absent key, is
\* falsy like the empty string and is represented by it).
Truthy(s) == Len(s) > 0

IsSpace(c) == c \in {" ", "\n", "\t"}

RECURSIVE lstrip(_)
lstrip(s) == IF Len(s) > 0 /\ IsSpace(Head(s)) THEN lstrip(Tail(s)) ELSE s

RECURSIVE rstrip(_)
rstrip(s) ==
    IF Len(s) > 0 /\ IsSpace(s[Len(s)]) THEN rstrip(SubSeq(s, 1, Len(s) - 1)) ELSE s

\* str.strip()
strip(s) == rstrip(lstrip(s))

\* str.startswith(tok) for a one-token literal
startswith(s, tok) == Len(s) > 0 /\ s[1] = tok

\* str.replace(tok, ""): every occurrence is removed
replace_all(s, tok) == SelectSeq(s, LAMBDA c : c # tok)

\* slice_to without the cut: the whole text
slice_to_uncut(s, n) == s

\* s[:n]; a negative n counts from the end
slice_to(s, n) ==
    SubSeq(s, 1, IF n < 0 THEN (IF Len(s) + n < 0 THEN 0 ELSE Len(s) + n)
                 ELSE IF Len(s) < n THEN Len(s) ELSE n)

IsPrefix(p, s) == Len(p) <= Len(s) /\ SubSeq(s, 1, Len(p)) = p

\* ------------------------------------------------------------------- dicts
EmptyDict == [k \in {} |-> EmptyText]

\* dict.get(k, default)
Get(d, k, default) == IF k \in DOMAIN d THEN d[k] ELSE default

\* ------------------------------------------------------- literals of graph.py
NEED_MORE_INFO == "NEED_MORE_INFO:"
PROCEED == "PROCEED"
ELLIPSIS == <<".", ".", ".">>
MANUAL_REVIEW == "Manual review required - "
\* "\n\nAdditional details: "
DETAILS_SEP ==
    <<"\n", "\n", "A", "d", "d", "i", "t", "i", "o", "n", "a", "l", " ",
      "d", "e", "t", "a", "i", "l", "s", ":", " ">>

ClassificationKeys == {"summary", "category", "severity", "issue_type", "next_action"}
Categories == {<<"Billing">>, <<"Login">>, <<"Performance">>, <<"Bug">>, <<"Question/How-To">>}
Severities == {<<"Low">>, <<"Medium">>, <<"High">>, <<"Critical">>}
IssueTypes == {<<"known_issue">>, <<"new_issue">>}

\* ---------------------------------------------------------------- messages
HumanMessage(text) == [type |-> "human", content |-> text, tool_calls |-> <<>>]
SystemMessage(text) == [type |-> "system", content |-> text, tool_calls |-> <<>>]
AIMessage(text) == [type |-> "ai", content |-> text, tool_calls |-> <<>>]

\* ------------------------------------------------------------ kb/search.py
\* Embedding vectors are integer vectors of one common dimension, all of norm
\* 10, so that every cosine is an exact number of thousandths.
ZeroVector == <<0, 0, 0, 0>>

\* One entry of the knowledge-base file.
KBEntry(id, title, symptoms) ==
    [id |-> id, title |-> title, category |-> "Bug", symptoms |-> symptoms,
     recommended_action |-> "action of " \o id]

\* ' '.join(symptoms)
RECURSIVE join(_)
join(symptoms) ==
    IF symptoms = <<>> THEN <<>>
    ELSE IF Len(symptoms) = 1 THEN <<symptoms[1]>>
    ELSE <<symptoms[1], " ">> \o join(Tail(symptoms))

build_entry_text(entry) ==
    LET symptoms == Get(entry, "symptoms", <<>>)
    IN  IF symptoms # <<>> THEN <<entry.title, " ">> \o join(symptoms)
        ELSE <<entry.title>>

\* Two versions of the knowledge-base file, as load_kb returns them.
KnownIssues ==
    << KBEntry("KB-001", "title of KB-001", <<"s1">>),
       KBEntry("KB-002", "title of KB-002", <<"s2">>) >>
RevisedIssues ==
    << KBEntry("KB-001", "title of KB-001", <<"s3">>),
       KBEntry("KB-002", "title of KB-002", <<"s4">>) >>

\* The embedding service, client.embeddings.create: one vector per text, the
\* same each time the text is sent.  Every text that is not the text of one
\* of the entries above gets the same vector.
Embed(text) ==
    CASE text = build_entry_text(KnownIssues[1]) -> <<8, 6, 0, 0>>
      [] text = build_entry_text(KnownIssues[2]) -> <<3, 9, 3, 1>>
      [] text = build_entry_text(RevisedIssues[1]) -> <<2, 8, 4, 4>>
      [] text = build_entry_text(RevisedIssues[2]) -> <<5, 5, 5, 5>>
      [] OTHER -> <<10, 0, 0, 0>>

\* the reply of the service to a request that raised
Unavailable == <<>>

\* KnowledgeBase.__init__: self.embeddings_cache = {}
EmptyCache == [text \in {} |-> ZeroVector]

\* _get_embedding failing with a vector of ones in place of the zero vector
get_embedding_ones_on_failure(cache, text, reply) ==
    IF text \in DOMAIN cache
    THEN [vector |-> cache[text], cache |-> cache, requests |-> <<>>]
    ELSE IF reply # Unavailable
    THEN [vector |-> reply,
          cache |-> [x \in DOMAIN cache \cup {text} |->
                        IF x = text THEN reply ELSE cache[x]],
          requests |-> <<[text |-> text, ok |-> TRUE]>>]
    ELSE [vector |-> <<1, 1, 1, 1>>, cache |-> cache,
          requests |-> <<[text |-> text, ok |-> FALSE]>>]

\* _get_embedding asking the service although the text is cached
get_embedding_uncached(cache, text, reply) ==
    IF reply # Unavailable
    THEN [vector |-> reply,
          cache |-> [x \in DOMAIN cache \cup {text} |->
                        IF x = text THEN reply ELSE cache[x]],
          requests |-> <<[text |-> text, ok |-> TRUE]>>]
    ELSE [vector |-> ZeroVector, cache |-> cache,
          requests |-> <<[text |-> text, ok |-> FALSE]>>]

\* _get_embedding returning a vector it received without storing it
get_embedding_not_stored(cache, text, reply) ==
    IF text \in DOMAIN cache
    THEN [vector |-> cache[text], cache |-> cache, requests |-> <<>>]
    ELSE IF reply # Unavailable
    THEN [vector |-> reply, cache |-> cache,
          requests |-> <<[text |-> text, ok |-> TRUE]>>]
    ELSE [vector |-> ZeroVector, cache |-> cache,
          requests |-> <<[text |-> text, ok |-> FALSE]>>]

\* _get_embedding storing the zero vector it substitutes on failure
get_embedding_caches_failure(cache, text, reply) ==
    IF text \in DOMAIN cache
    THEN [vector |-> cache[text], cache |-> cache, requests |-> <<>>]
    ELSE IF reply # Unavailable
    THEN [vector |-> reply,
          cache |-> [x \in DOMAIN cache \cup {text} |->
                        IF x = text THEN reply ELSE cache[x]],
          requests |-> <<[text |-> text, ok |-> TRUE]>>]
    ELSE [vector |-> ZeroVector,
          cache |-> [x \in DOMAIN cache \cup {text} |->
                        IF x = text THEN ZeroVector ELSE cache[x]],
          requests |-> <<[text |-> text, ok |-> FALSE]>>]

\* _get_embedding(text) on the cache given; reply is what the service answers
\* if it is asked.  Returns the vector, the cache afterwards and the requests
\* sent to the service.
get_embedding(cache, text, reply) ==
    IF text \in DOMAIN cache
    THEN [vector |-> cache[text], cache |-> cache, requests |-> <<>>]
    ELSE IF reply # Unavailable
    THEN [vector |-> reply,
          cache |-> [x \in DOMAIN cache \cup {text} |->
                        IF x = text THEN reply ELSE cache[x]],
          requests |-> <<[text |-> text, ok |-> TRUE]>>]
    ELSE [vector |-> ZeroVector, cache |-> cache,
          requests |-> <<[text |-> text, ok |-> FALSE]>>]

RECURSIVE Dot(_, _)
Dot(vec1, vec2) ==
    IF vec1 = <<>> THEN 0
    ELSE Head(vec1) * Head(vec2) + Dot(Tail(vec1), Tail(vec2))

\* np.linalg.norm, on vectors whose norm is a whole number
Norm(vec) == LET d == Dot(vec, vec) IN CHOOSE n \in 0..d : n * n = d

\* _cosine_similarity, in thousandths
cosine_similarity(vec1, vec2) ==
    LET dot_product == Dot(vec1, vec2)
        norm1 == Norm(vec1)
        norm2 == Norm(vec2)
    IN  IF norm1 = 0 \/ norm2 = 0 THEN 0
        ELSE (dot_product * 1000) \div (norm1 * norm2)

\* one item of results, search.py:39-45
SearchResult(entry, score) ==
    [id |-> entry.id, title |-> entry.title, category |-> entry.category,
     score |-> score,
     recommended_action |-> Get(entry, "recommended_action", "")]

\* the sort placing an item before the items of equal score
insert_by_score_unstable(sorted, item) ==
    LET k == Cardinality({i \in 1..Len(sorted) : sorted[i].score > item.score})
    IN  SubSeq(sorted, 1, k) \o <<item>> \o SubSeq(sorted, k + 1, Len(sorted))

\* One step of results.sort(key=score, reverse=True): the item goes behind
\* every item of greater or equal score, which keeps the order of equal items.
insert_by_score(sorted, item) ==
    LET k == Cardinality({i \in 1..Len(sorted) : sorted[i].score >= item.score})
    IN  SubSeq(sorted, 1, k) \o <<item>> \o SubSeq(sorted, k + 1, Len(sorted))

RECURSIVE sort_by_score(_)
sort_by_score(results) ==
    IF results = <<>> THEN <<>>
    ELSE insert_by_score(sort_by_score(SubSeq(results, 1, Len(results) - 1)),
                         results[Len(results)])

\* What the service answers to the next request of a call of search: service
\* tells, for the first, second, ... request of the call, whether it succeeds.
Reply(service, requests, text) ==
    IF service[Len(requests) + 1] THEN Embed(text) ELSE Unavailable

\* the loop of search, lines 33-45, from entry i on
RECURSIVE score_entries(_, _, _, _, _)
score_entries(kb_entries, i, query_embedding, service, acc) ==
    IF i > Len(kb_entries) THEN acc
    ELSE LET entry == kb_entries[i]
             entry_text == build_entry_text(entry)
             e == get_embedding(acc.cache, entry_text,
                                Reply(service, acc.requests, entry_text))
             score == cosine_similarity(query_embedding, e.vector)
         IN  score_entries(kb_entries, i + 1, query_embedding, service,
                 [results |-> Append(acc.results, SearchResult(entry, score)),
                  cache |-> e.cache,
                  requests |-> acc.requests \o e.requests])

\* search returning the results as scored, without the sort
search_unsorted(cache, kb_entries, query, top_k, service) ==
    LET q == get_embedding(cache, query, Reply(service, <<>>, query))
        scored == score_entries(kb_entries, 1, q.vector, service,
                      [results |-> <<>>, cache |-> q.cache,
                       requests |-> q.requests])
    IN  [results |-> slice_to(scored.results, top_k),
         cache |-> scored.cache, requests |-> scored.requests]

\* search starting from an empty cache on every call
search_forgets(cache, kb_entries, query, top_k, service) ==
    LET q == get_embedding(EmptyCache, query, Reply(service, <<>>, query))
        scored == score_entries(kb_entries, 1, q.vector, service,
                      [results |-> <<>>, cache |-> q.cache,
                       requests |-> q.requests])
    IN  [results |-> slice_to(sort_by_score(scored.results), top_k),
         cache |-> scored.cache, requests |-> scored.requests]

\* KnowledgeBase.search(query, top_k) on the cache given, with kb_entries what
\* load_kb returned: the results, the cache afterwards and the requests sent
\* to the embedding service.
search(cache, kb_entries, query, top_k, service) ==
    LET q == get_embedding(cache, query, Reply(service, <<>>, query))
        scored == score_entries(kb_entries, 1, q.vector, service,
                      [results |-> <<>>, cache |-> q.cache,
                       requests |-> q.requests])
    IN  [results |-> slice_to(sort_by_score(scored.results), top_k),
         cache |-> scored.cache, requests |-> scored.requests]

\* ------------------------------------------------------------ agent/tools.py
\* f"{score:.2f}": the score rounded to hundredths (ties to even), rendered.
fmt2(score) ==
    LET q == score \div 10
        r == score % 10
        h == IF r < 5 THEN q
             ELSE IF r > 5 THEN q + 1
             ELSE IF q % 2 = 0 THEN q ELSE q + 1
    IN  ToString(h)

RECURSIVE format_items(_)
format_items(results) ==
    IF results = <<>> THEN <<>>
    ELSE <<"- ID: ", Head(results).id, " | ", Head(results).title,
           " | Similarity: ", fmt2(Head(results).score), "\n",
           "  Recommended action: ", Head(results).recommended_action, "\n">>
         \o format_items(Tail(results))

search_knowledge_base(results) ==
    IF results = <<>>
    THEN <<"No matching known issues found in the knowledge base.">>
    ELSE <<"Found related known issues:\n">> \o format_items(results)

\* ------------------------------------------------------------ agent/utils.py
RetryableExceptions ==
    {"APIError", "APITimeoutError", "RateLimitError", "APIConnectionError"}

NoResponse == [content |-> EmptyText, tool_calls |-> <<>>]
NoException == [type |-> "", msg |-> EmptyText, cause |-> ""]

\* One attempt of the completion service: a response or an exception.
Responded(resp) == [ok |-> TRUE, value |-> resp, exc |-> NoException]
Threw(type) ==
    [ok |-> FALSE, value |-> NoResponse,
     exc |-> [type |-> type, msg |-> <<"message of " \o type>>, cause |-> ""]]

LLMError(max_retries, e) ==
    [type |-> "LLMError",
     msg |-> <<"LLM call failed after ", ToString(max_retries), " retries: ">> \o e.msg,
     cause |-> e.type]

\* wrapper giving up one attempt later: `attempt == max_retries + 1`
wrapper_one_more(max_retries, backoff_factor, attempt, delay, result) ==
    IF result.ok
    THEN [kind |-> "return", value |-> result.value, exc |-> NoException,
          sleep |-> <<>>, delay |-> delay]
    ELSE IF result.exc.type \in RetryableExceptions
    THEN IF attempt = max_retries + 1
         THEN [kind |-> "raise", value |-> NoResponse,
               exc |-> LLMError(max_retries, result.exc),
               sleep |-> <<>>, delay |-> delay]
         ELSE [kind |-> "retry", value |-> NoResponse, exc |-> NoException,
               sleep |-> <<delay>>, delay |-> delay * backoff_factor]
    ELSE [kind |-> "raise", value |-> NoResponse, exc |-> result.exc,
          sleep |-> <<>>, delay |-> delay]

\* wrapper normalizing the unexpected exceptions too
wrapper_normalizes_all(max_retries, backoff_factor, attempt, delay, result) ==
    IF result.ok
    THEN [kind |-> "return", value |-> result.value, exc |-> NoException,
          sleep |-> <<>>, delay |-> delay]
    ELSE IF result.exc.type \in RetryableExceptions /\ attempt # max_retries
    THEN [kind |-> "retry", value |-> NoResponse, exc |-> NoException,
          sleep |-> <<delay>>, delay |-> delay * backoff_factor]
    ELSE [kind |-> "raise", value |-> NoResponse,
          exc |-> LLMError(max_retries, result.exc),
          sleep |-> <<>>, delay |-> delay]

\* wrapper sleeping before it tests for the last attempt
wrapper_sleeps_first(max_retries, backoff_factor, attempt, delay, result) ==
    IF result.ok
    THEN [kind |-> "return", value |-> result.value, exc |-> NoException,
          sleep |-> <<>>, delay |-> delay]
    ELSE IF result.exc.type \in RetryableExceptions
    THEN IF attempt = max_retries
         THEN [kind |-> "raise", value |-> NoResponse,
               exc |-> LLMError(max_retries, result.exc),
               sleep |-> <<delay>>, delay |-> delay * backoff_factor]
         ELSE [kind |-> "retry", value |-> NoResponse, exc |-> NoException,
               sleep |-> <<delay>>, delay |-> delay * backoff_factor]
    ELSE [kind |-> "raise", value |-> NoResponse, exc |-> result.exc,
          sleep |-> <<>>, delay |-> delay]

\* One iteration (number `attempt`, from 0) of the loop of retry_with_backoff's
\* wrapper, given what func did: return its value, go round again after
\* sleeping `delay`, or raise.  sleep is the time.sleep calls of the iteration
\* and delay the value of the local afterwards.
wrapper(max_retries, backoff_factor, attempt, delay, result) ==
    IF result.ok
    THEN [kind |-> "return", value |-> result.value, exc |-> NoException,
          sleep |-> <<>>, delay |-> delay]
    ELSE IF result.exc.type \in RetryableExceptions
    THEN IF attempt = max_retries
         THEN [kind |-> "raise", value |-> NoResponse,
               exc |-> LLMError(max_retries, result.exc),
               sleep |-> <<>>, delay |-> delay]
         ELSE [kind |-> "retry", value |-> NoResponse, exc |-> NoException,
               sleep |-> <<delay>>, delay |-> delay * backoff_factor]
    ELSE [kind |-> "raise", value |-> NoResponse, exc |-> result.exc,
          sleep |-> <<>>, delay |-> delay]

handle_llm_error(error) ==
    IF error.type = "RateLimitError"
    THEN [error |-> "rate_limit",
          message |-> <<"API rate limit exceeded. Please try again in a moment.">>]
    ELSE IF error.type = "APITimeoutError"
    THEN [error |-> "timeout", message |-> <<"Request timed out. Please try again.">>]
    ELSE IF error.type = "APIConnectionError"
    THEN [error |-> "connection",
          message |-> <<"Unable to connect to AI service. Please check your internet connection.">>]
    ELSE IF error.type = "APIError"
    THEN [error |-> "api_error", message |-> <<"AI service error: ">> \o error.msg]
    ELSE IF error.type = "LLMError"
    THEN [error |-> "llm_error", message |-> error.msg]
    ELSE [error |-> "unknown",
          message |-> <<"An unexpected error occurred. Please try again.">>]

\* ------------------------------------------------------ agent/orchestrator.py
\* JSON text of a dict whose values are texts: { 'k' : 'v...' , ... }
KeyOrder == <<"summary", "category", "severity", "issue_type", "next_action">>

RECURSIVE json_members(_, _)
json_members(d, keys) ==
    IF keys = <<>> THEN <<>>
    ELSE LET k == Head(keys)
             rest == json_members(d, Tail(keys))
         IN  IF k \in DOMAIN d
             THEN <<",", "'", k, "'", ":", "'">> \o d[k] \o <<"'">> \o rest
             ELSE rest

json_dumps(d) ==
    LET m == json_members(d, KeyOrder)
    IN  <<"{">> \o (IF m = <<>> THEN <<>> ELSE Tail(m)) \o <<"}">>

ParseFailed == [ok |-> FALSE, value |-> EmptyDict]

RECURSIVE parse_members(_, _)
parse_members(toks, acc) ==
    IF Len(toks) >= 6 /\ toks[1] = "'" /\ toks[3] = "'" /\ toks[4] = ":" /\ toks[5] = "'"
    THEN LET rest == SubSeq(toks, 6, Len(toks))
             closing == {j \in 1..Len(rest) : rest[j] = "'"}
         IN  IF closing = {} THEN ParseFailed
             ELSE LET j == CHOOSE x \in closing : \A y \in closing : x <= y
                      val == SubSeq(rest, 1, j - 1)
                      after == SubSeq(rest, j + 1, Len(rest))
                      acc2 == [k \in DOMAIN acc \cup {toks[2]} |->
                                  IF k = toks[2] THEN val ELSE acc[k]]
                  IN  IF after = <<"}">> THEN [ok |-> TRUE, value |-> acc2]
                      ELSE IF Len(after) > 0 /\ after[1] = ","
                      THEN parse_members(Tail(after), acc2)
                      ELSE ParseFailed
    ELSE ParseFailed

\* json.loads(content), for the object texts above
json_loads(text) ==
    IF text = <<"{", "}">> THEN [ok |-> TRUE, value |-> EmptyDict]
    ELSE IF Len(text) > 0 /\ text[1] = "{" THEN parse_members(Tail(text), EmptyDict)
    ELSE ParseFailed

\* TriageResponse(...): the five keys are read and the enum fields validated
ValidClassification(args) ==
    /\ ClassificationKeys \subseteq DOMAIN args
    /\ args["category"] \in Categories
    /\ args["severity"] \in Severities
    /\ args["issue_type"] \in IssueTypes

\* TriageAgent._parse_response: the tool call's arguments, else the raw content
\* parsed as JSON; ok is FALSE where it raises.
parse_response(response) ==
    LET args == IF response.tool_calls # <<>>
                THEN [ok |-> TRUE, value |-> response.tool_calls[1].args]
                ELSE json_loads(response.content)
    IN  IF args.ok /\ ValidClassification(args.value) THEN args ELSE ParseFailed

\* The events of triage_stream, one record per line it yields.
StatusEvent(message) == [type |-> "status", message |-> message]
ErrorEvent(message) == [type |-> "error", message |-> message]

RECURSIVE tool_call_events(_)
tool_call_events(tool_calls) ==
    IF tool_calls = <<>> THEN <<>>
    ELSE <<[type |-> "tool_call", tool |-> Head(tool_calls).name,
            args |-> Head(tool_calls).args]>>
         \o tool_call_events(Tail(tool_calls))

RECURSIVE message_events(_)
message_events(msgs) ==
    IF msgs = <<>> THEN <<>>
    ELSE (IF Len(Head(msgs).content) > 0
          THEN <<[type |-> "message", content |-> Head(msgs).content]>>
          ELSE <<>>)
         \o tool_call_events(Head(msgs).tool_calls)
         \o message_events(Tail(msgs))

\* node_events yielding the node's data events before its node_start event
node_events_data_first(node_name, node_output) ==
    (IF node_name = "search_kb" /\ "kb_results" \in DOMAIN node_output
     THEN <<[type |-> "kb_search_complete", data |-> node_output["kb_results"]]>>
     ELSE <<>>)
    \o (IF node_name = "classify" /\ "classification" \in DOMAIN node_output
        THEN <<[type |-> "classification_complete",
                data |-> node_output["classification"]]>>
        ELSE <<>>)
    \o <<[type |-> "node_start", node |-> node_name]>>
    \o (IF "messages" \in DOMAIN node_output
        THEN message_events(node_output["messages"])
        ELSE <<>>)
    \o <<[type |-> "node_complete", node |-> node_name]>>

\* what the loop of triage_stream yields for one update of the graph's stream
node_events(node_name, node_output) ==
    <<[type |-> "node_start", node |-> node_name]>>
    \o (IF node_name = "search_kb" /\ "kb_results" \in DOMAIN node_output
        THEN <<[type |-> "kb_search_complete", data |-> node_output["kb_results"]]>>
        ELSE <<>>)
    \o (IF node_name = "classify" /\ "classification" \in DOMAIN node_output
        THEN <<[type |-> "classification_complete",
                data |-> node_output["classification"]]>>
        ELSE <<>>)
    \o (IF "messages" \in DOMAIN node_output
        THEN message_events(node_output["messages"])
        ELSE <<>>)
    \o <<[type |-> "node_complete", node |-> node_name]>>

\* ------------------------------------------------------------ agent/graph.py
NodeResult(update) == [raised |-> FALSE, update |-> update]
NodeRaised == [raised |-> TRUE, update |-> EmptyDict]

\* state["messages"][0].content raises on a state without messages
HasMessages(state) == "messages" \in DOMAIN state /\ Len(state["messages"]) > 0

\* user_query = messages[-1].content
search_query(state) == state["messages"][Len(state["messages"])].content

\* results is what kb.search(user_query, top_k=3) returned to the tool
search_kb_node(state, results) ==
    IF ~HasMessages(state) THEN NodeRaised
    ELSE LET kb_results == search_knowledge_base(results)
         IN  NodeResult(
               [kb_results |-> kb_results,
                messages |-> <<SystemMessage(<<"Knowledge base search results:\n">>
                                             \o kb_results)>>])

\* analyze_on_response testing the prefix on the unstripped content
analyze_on_response_unstripped(response) ==
    LET content == response.content
    IN  IF startswith(content, NEED_MORE_INFO)
        THEN LET question == strip(replace_all(content, NEED_MORE_INFO))
             IN  NodeResult(
                   [needs_more_info |-> TRUE,
                    interrupt_question |-> question,
                    messages |-> <<AIMessage(
                       <<"I need more information to properly classify this ticket.\n\nQuestion: ">>
                       \o question)>>])
        ELSE NodeResult(
               [needs_more_info |-> FALSE,
                messages |-> <<AIMessage(<<"Proceeding with classification...">>)>>])

\* analyze_node, the response branch: PROCEED or NEED_MORE_INFO: <question>
analyze_on_response(response) ==
    LET content == strip(response.content)
    IN  IF startswith(content, NEED_MORE_INFO)
        THEN LET question == strip(replace_all(content, NEED_MORE_INFO))
             IN  NodeResult(
                   [needs_more_info |-> TRUE,
                    interrupt_question |-> question,
                    messages |-> <<AIMessage(
                       <<"I need more information to properly classify this ticket.\n\nQuestion: ">>
                       \o question)>>])
        ELSE NodeResult(
               [needs_more_info |-> FALSE,
                messages |-> <<AIMessage(<<"Proceeding with classification...">>)>>])

\* analyze_on_llm_error asking the user instead of proceeding
analyze_on_llm_error_asks(e) ==
    NodeResult(
      [needs_more_info |-> TRUE,
       interrupt_question |-> handle_llm_error(e).message,
       messages |-> <<AIMessage(
          <<"Error analyzing ticket: ">> \o handle_llm_error(e).message)>>])

\* analyze_node, except LLMError
analyze_on_llm_error(e) ==
    NodeResult(
      [needs_more_info |-> FALSE,
       messages |-> <<AIMessage(
          <<"Error analyzing ticket: ">> \o handle_llm_error(e).message
          \o <<". Proceeding with best-effort classification.">>)>>])

\* analyze_on_exception writing a classification of its own
analyze_on_exception_classifies(e) ==
    NodeResult(
      [needs_more_info |-> FALSE,
       classification |-> [summary |-> <<"Error during analysis">>],
       messages |-> <<AIMessage(
          <<"An error occurred during analysis. Proceeding with classification...">>)>>])

\* analyze_node, except Exception
analyze_on_exception(e) ==
    NodeResult(
      [needs_more_info |-> FALSE,
       messages |-> <<AIMessage(
          <<"An error occurred during analysis. Proceeding with classification...">>)>>])

\* call is how call_llm_with_retry ended: "return" with the response, or
\* "raise" with the exception.
analyze_node(state, call) ==
    IF ~HasMessages(state) THEN NodeRaised
    ELSE IF call.kind = "return" THEN analyze_on_response(call.value)
    ELSE IF call.exc.type = "LLMError" THEN analyze_on_llm_error(call.exc)
    ELSE analyze_on_exception(call.exc)

\* classify_node: the ticket text and, when present, the additional details
full_context(state) ==
    LET user_query == state["messages"][1].content
        additional_details == Get(state, "additional_details", EmptyText)
    IN  IF Truthy(additional_details)
        THEN user_query \o DETAILS_SEP \o additional_details
        ELSE user_query

\* classify_node, the response branch: the tool call's arguments, else the
\* fallback for a response without tool calls
classify_on_response(context, response) ==
    LET classification ==
            IF response.tool_calls # <<>>
            THEN response.tool_calls[1].args
            ELSE [summary |-> slice_to(context, SUMMARY_LEN),
                  category |-> <<"Bug">>,
                  severity |-> <<"Medium">>,
                  issue_type |-> <<"new_issue">>,
                  next_action |-> <<MANUAL_REVIEW, "classification incomplete">>]
    IN  NodeResult(
          [classification |-> classification,
           messages |-> <<[type |-> "ai", content |-> response.content,
                           tool_calls |-> response.tool_calls]>>])

\* classify_node, except LLMError
classify_on_llm_error(context, e) ==
    LET error_info == handle_llm_error(e)
    IN  NodeResult(
          [classification |->
              [summary |-> slice_to(context, SUMMARY_LEN) \o ELLIPSIS,
               category |-> <<"Bug">>,
               severity |-> <<"Medium">>,
               issue_type |-> <<"new_issue">>,
               next_action |-> <<MANUAL_REVIEW>> \o error_info.message],
           messages |-> <<AIMessage(
              <<"Classification completed with fallback due to error: ">>
              \o error_info.message)>>])

\* classify_node, except Exception
classify_on_exception(e) ==
    NodeResult(
      [classification |->
          [summary |-> <<"Error during classification">>,
           category |-> <<"Bug">>,
           severity |-> <<"Medium">>,
           issue_type |-> <<"new_issue">>,
           next_action |-> <<MANUAL_REVIEW, "unexpected error">>],
       messages |-> <<AIMessage(
          <<"An error occurred during classification. Please review manually.">>)>>])

classify_node(state, call) ==
    IF ~HasMessages(state) THEN NodeRaised
    ELSE IF call.kind = "return" THEN classify_on_response(full_context(state), call.value)
    ELSE IF call.exc.type = "LLMError" THEN classify_on_llm_error(full_context(state), call.exc)
    ELSE classify_on_exception(call.exc)

\* should_interrupt without the additional_details guard
should_interrupt_flag_only(state) ==
    IF Get(state, "needs_more_info", FALSE) THEN "interrupt" ELSE "classify"

should_interrupt(state) ==
    IF Get(state, "needs_more_info", FALSE)
       /\ ~Truthy(Get(state, "additional_details", EmptyText))
    THEN "interrupt"
    ELSE "classify"

\* apply_update putting the new messages first
apply_update_prepends(state, update) ==
    [k \in DOMAIN state \cup DOMAIN update |->
        IF k = "messages"
        THEN Get(update, k, <<>>) \o Get(state, k, <<>>)
        ELSE IF k \in DOMAIN update THEN update[k] ELSE state[k]]

\* apply_update without the add_messages reducer: messages is overwritten too
apply_update_overwrites(state, update) ==
    [k \in DOMAIN state \cup DOMAIN update |->
        IF k \in DOMAIN update THEN update[k] ELSE state[k]]

\* The state after a node's update: every key of the update overwrites, except
\* messages, whose reducer add_messages appends.
apply_update(state, update) ==
    [k \in DOMAIN state \cup DOMAIN update |->
        IF k = "messages"
        THEN Get(state, k, <<>>) \o Get(update, k, <<>>)
        ELSE IF k \in DOMAIN update THEN update[k] ELSE state[k]]

\* build_graph: the entry point and the edges.  END reached from analyze through
\* the "interrupt" branch is the suspended end of an invocation, END reached
\* from classify is the finished one.
entry_point == "search_kb"

\* next_stage with the edge search_kb -> classify
next_stage_skips_analyze(node, state) ==
    CASE node = "search_kb" -> "classify"
      [] node = "analyze" ->
            IF should_interrupt(state) = "interrupt" THEN "suspended" ELSE "classify"
      [] node = "classify" -> "done"

\* next_stage whose branch after analyze reads needs_more_info alone
next_stage_reasks(node, state) ==
    CASE node = "search_kb" -> "analyze"
      [] node = "analyze" ->
            IF Get(state, "needs_more_info", FALSE) THEN "suspended" ELSE "classify"
      [] node = "classify" -> "done"

next_stage(node, state) ==
    CASE node = "search_kb" -> "analyze"
      [] node = "analyze" ->
            IF should_interrupt(state) = "interrupt" THEN "suspended" ELSE "classify"
      [] node = "classify" -> "done"

\* ------------------------------------------------------------------ inputs
ShortTicket == <<"h", "e", "l", "p">>
LongTicket(n) == [i \in 1..n |-> "A"]
Tickets == {ShortTicket} \cup {LongTicket(SUMMARY_LEN + k) : k \in 0..MaxOverflow}

Details == {<<"d">>}

\* analysis_response.content: PROCEED, and every text of at most MaxContentLen
\* tokens made of the marker, a blank and a letter
ContentTokens == {NEED_MORE_INFO, " ", "q"}
AnalyzeContents ==
    {<<PROCEED>>} \cup UNION {[1..n -> ContentTokens] : n \in 0..MaxContentLen}

ValidKnown ==
    [summary |-> <<"s">>, category |-> <<"Billing">>, severity |-> <<"High">>,
     issue_type |-> <<"known_issue">>, next_action |-> <<"Attach KB article">>]
ValidNew == [ValidKnown EXCEPT !["issue_type"] = <<"new_issue">>]
BadEnum == [ValidKnown EXCEPT !["category"] = <<"Other">>]
MissingKey == [k \in ClassificationKeys \ {"severity"} |-> ValidKnown[k]]

ToolCall(args) == <<[name |-> "classify_ticket", args |-> args]>>

\* the response of llm_with_tools.invoke
ClassifyResponses ==
    { [content |-> EmptyText, tool_calls |-> ToolCall(a)] :
          a \in {ValidKnown, ValidNew, BadEnum, MissingKey, EmptyDict} }
    \cup
    { [content |-> c, tool_calls |-> <<>>] :
          c \in {json_dumps(ValidNew), <<"s", "o", "r", "r", "y">>} }

\* exceptions the completion call can raise
ServiceExceptions == RetryableExceptions \cup {"ValueError"}

AnalyzeResults ==
    {Responded([content |-> c, tool_calls |-> <<>>]) : c \in AnalyzeContents}
    \cup {Threw(e) : e \in ServiceExceptions}

ClassifyResults ==
    {Responded(r) : r \in ClassifyResponses} \cup {Threw(e) : e \in ServiceExceptions}

\* ------------------------------------------------------------------- state
VARIABLES
    pc,       \* per thread id: "none" (not minted), the node about to run,
              \* "suspended", "done" or "failed" (an exception left the graph);
              \* in a direct call of the wrapper: "wrapper", "returned", "raised"
    store,    \* the checkpointer: thread id -> AgentState
    attempt,  \* per thread id: the attempt number of the running wrapper call
    results,  \* per thread id: what kb.search returned to the last search_kb
    updates,  \* per thread id: the nodes the current invocation has streamed
    events,   \* per thread id: the events the current invocation has yielded
    response, \* the HTTP reply to the last call of the API
    settings, \* the process-wide settings object of app/config.py
    delay,    \* per thread id: the local `delay` of the running wrapper call
    slept,    \* per thread id: the time.sleep calls of the running wrapper call
    outcome,  \* per thread id: how a direct call of the wrapper ended
    embeddings_cache, \* kb.embeddings_cache of the process: text -> vector
    kb_call   \* the last direct call of kb.search: its arguments, the cache it
              \* found, the requests it sent to the embedding service, its
              \* results, and whether it repeats the call before it (the
              \* same query again, after a call that met no failed request)

vars == <<pc, store, attempt, results, updates, events, response,
          settings, delay, slept, outcome, embeddings_cache, kb_call>>

\* get_settings() with ENVIRONMENT unset
DevelopmentSettings ==
    [MAX_RETRIES |-> MAX_RETRIES, RETRY_DELAY |-> RETRY_DELAY,
     RETRY_BACKOFF |-> RETRY_BACKOFF,
     MAX_DESCRIPTION_LENGTH |-> MAX_DESCRIPTION_LENGTH]

NoOutcome == [kind |-> "", value |-> NoResponse, exc |-> NoException]

\* no call of kb.search yet, in a process whose knowledge-base file holds
\* kb_entries and whose caller asks for top_k results
NoCall(kb_entries, top_k) ==
    [kb_entries |-> kb_entries, top_k |-> top_k, query |-> <<>>, service |-> <<>>,
     cache |-> EmptyCache, requests |-> <<>>, results |-> <<>>,
     returned |-> FALSE, repeated |-> FALSE]

\* the iteration of the wrapper of thread t, under the settings
WrapperStep(t, result) ==
    wrapper(settings.MAX_RETRIES, settings.RETRY_BACKOFF, attempt[t], delay[t], result)

\* the reply of an endpoint: a stream (200) or an HTTPException
NoReply == [call |-> "", status |-> 0, detail |-> ""]
Streaming(call) == [call |-> call, status |-> 200, detail |-> ""]
HTTPException(call, status_code, detail) ==
    [call |-> call, status |-> status_code, detail |-> detail]

\* What a search of the pipeline can meet: load_kb fails (an empty list) or
\* returns one of the two versions of the file, and the embedding service
\* answers every request.
SearchEnvs ==
    { [kb_entries |-> <<>>, service |-> <<TRUE>>],
      [kb_entries |-> KnownIssues, service |-> <<TRUE, TRUE, TRUE>>],
      [kb_entries |-> RevisedIssues, service |-> <<TRUE, TRUE, TRUE>>] }

Init ==
    /\ pc = [t \in Threads |-> "none"]
    /\ store = [t \in Threads |-> EmptyDict]
    /\ attempt = [t \in Threads |-> 0]
    /\ results = [t \in Threads |-> <<>>]
    /\ updates = [t \in Threads |-> <<>>]
    /\ events = [t \in Threads |-> <<>>]
    /\ response = NoReply
    /\ settings = DevelopmentSettings
    /\ delay = [t \in Threads |-> settings.RETRY_DELAY]
    /\ slept = [t \in Threads |-> <<>>]
    /\ outcome = [t \in Threads |-> NoOutcome]
    /\ embeddings_cache = EmptyCache
    /\ kb_call = NoCall(<<>>, 0)

\* A node of thread t has returned r: its update is applied and the edge out of
\* the node taken, or its exception ends the invocation.
NodeDone(t, node, r) ==
    /\ attempt' = [attempt EXCEPT ![t] = 0]
    /\ delay' = [delay EXCEPT ![t] = settings.RETRY_DELAY]
    /\ slept' = [slept EXCEPT ![t] = <<>>]
    /\ UNCHANGED <<response, settings, outcome, kb_call>>
    /\ IF r.raised
       THEN /\ pc' = [pc EXCEPT ![t] = "failed"]
            /\ events' = [events EXCEPT ![t] = Append(@, ErrorEvent("'messages'"))]
            /\ UNCHANGED <<store, updates>>
       ELSE LET state == apply_update(store[t], r.update)
                stage == next_stage(node, state)
            IN  /\ store' = [store EXCEPT ![t] = state]
                /\ pc' = [pc EXCEPT ![t] = stage]
                /\ updates' = [updates EXCEPT ![t] = Append(@, node)]
                /\ events' = [events EXCEPT ![t] =
                                 @ \o node_events(node, r.update)
                                   \o (IF stage \in {"suspended", "done"}
                                       THEN <<StatusEvent("Triage complete")>>
                                       ELSE <<>>)]

\* TriageAgent.triage_stream: a new thread, the initial state, the entry point
StartTriage(t, description) ==
    /\ pc[t] = "none"
    /\ \A u \in DOMAIN pc : u < t => pc[u] # "none"
    /\ store' = [store EXCEPT ![t] =
                    [messages |-> <<HumanMessage(description)>>,
                     kb_results |-> EmptyText,
                     classification |-> EmptyDict]]
    /\ pc' = [pc EXCEPT ![t] = entry_point]
    /\ updates' = [updates EXCEPT ![t] = <<>>]
    /\ events' = [events EXCEPT ![t] = <<StatusEvent("Starting triage with LangGraph")>>]
    /\ response' = Streaming("triage_stream")
    /\ UNCHANGED <<attempt, results, settings, delay, slept, outcome,
                   embeddings_cache, kb_call>>

\* SearchKb applying the node's update to the record of every thread
SearchKbWritesAll(t, env) ==
    /\ pc[t] = "search_kb"
    /\ LET call == search(embeddings_cache, env.kb_entries,
                          search_query(store[t]), 3, env.service)
           r == search_kb_node(store[t], call.results)
       IN  /\ results' = [results EXCEPT ![t] = call.results]
           /\ embeddings_cache' = call.cache
           /\ store' = [u \in DOMAIN store |->
                           IF pc[u] = "none" THEN store[u]
                           ELSE apply_update(store[u], r.update)]
           /\ pc' = [pc EXCEPT ![t] = next_stage("search_kb", store'[t])]
           /\ updates' = [updates EXCEPT ![t] = Append(@, "search_kb")]
           /\ events' = [events EXCEPT ![t] = @ \o node_events("search_kb", r.update)]
    /\ UNCHANGED <<attempt, delay, slept, response, settings, outcome, kb_call>>

\* The search_kb node of thread t: kb.search(user_query, top_k=3) runs on the
\* process's cache, in an environment env that tells what load_kb returns and
\* which requests the embedding service answers.
SearchKb(t, env) ==
    /\ pc[t] = "search_kb"
    /\ LET call == search(embeddings_cache, env.kb_entries,
                          search_query(store[t]), 3, env.service)
       IN  /\ results' = [results EXCEPT ![t] = call.results]
           /\ embeddings_cache' = call.cache
           /\ NodeDone(t, "search_kb", search_kb_node(store[t], call.results))

\* A completion attempt failed with a retryable error and attempts are left:
\* the wrapper sleeps and goes round again.
Retry(t, result) ==
    /\ pc[t] \in {"analyze", "classify", "wrapper"}
    /\ WrapperStep(t, result).kind = "retry"
    /\ attempt' = [attempt EXCEPT ![t] = @ + 1]
    /\ delay' = [delay EXCEPT ![t] = WrapperStep(t, result).delay]
    /\ slept' = [slept EXCEPT ![t] = @ \o WrapperStep(t, result).sleep]
    /\ UNCHANGED <<pc, store, results, updates, events, response, settings,
                   outcome, embeddings_cache, kb_call>>

Analyze(t, result) ==
    /\ pc[t] = "analyze"
    /\ LET call == WrapperStep(t, result)
       IN  /\ call.kind # "retry"
           /\ NodeDone(t, "analyze", analyze_node(store[t], call))
    /\ UNCHANGED <<results, embeddings_cache>>

Classify(t, result) ==
    /\ pc[t] = "classify"
    /\ LET call == WrapperStep(t, result)
       IN  /\ call.kind # "retry"
           /\ NodeDone(t, "classify", classify_node(store[t], call))
    /\ UNCHANGED <<results, embeddings_cache>>

\* resume_with_details(thread_id, additional_details): the details are merged
\* into the suspended thread's state and the graph is invoked again.
Resume(t, additional_details) ==
    /\ pc[t] = "suspended"
    /\ store' = [store EXCEPT ![t] =
                    apply_update(@,
                        [additional_details |-> additional_details,
                         needs_more_info |-> FALSE,
                         messages |-> <<HumanMessage(additional_details)>>])]
    /\ pc' = [pc EXCEPT ![t] = entry_point]
    /\ updates' = [updates EXCEPT ![t] = <<>>]
    /\ events' = [events EXCEPT ![t] = <<StatusEvent("Resuming triage")>>]
    /\ response' = Streaming("resume")
    /\ UNCHANGED <<attempt, results, settings, delay, slept, outcome,
                   embeddings_cache, kb_call>>

Next ==
    \E t \in Threads :
        \/ \E d \in Tickets : StartTriage(t, d)
        \/ \E env \in SearchEnvs : SearchKb(t, env)
        \/ \E r \in AnalyzeResults \cup ClassifyResults : Retry(t, r)
        \/ \E r \in AnalyzeResults : Analyze(t, r)
        \/ \E r \in ClassifyResults : Classify(t, r)
        \/ \E d \in Details : Resume(t, d)

Spec == Init /\ [][Next]_vars

\* A node that has been entered returns: the search and every completion
\* attempt end (the client has a timeout, the sleeps are finite), and the
\* wrapper gives up after MAX_RETRIES retries.
NodeReturns(t) ==
    \/ \E env \in SearchEnvs : SearchKb(t, env)
    \/ \E r \in AnalyzeResults : Analyze(t, r)
    \/ \E r \in ClassifyResults : Classify(t, r)

FairSpec == Spec /\ \A t \in Threads : WF_vars(NodeReturns(t))

\* ---------------------------------------------- a direct call of the wrapper
\* A function decorated with retry_with_backoff is called on its own, under
\* any settings: max_retries from 0 to MaxRetries, initial_delay of half a
\* second or a second, backoff_factor 1, 2 or 3.
SettingsSpace ==
    [MAX_RETRIES : 0..MaxRetries, RETRY_DELAY : {500, 1000}, RETRY_BACKOFF : {1, 2, 3}]

\* what one call of func does
FuncResults ==
    {Responded([content |-> <<PROCEED>>, tool_calls |-> <<>>])}
    \cup {Threw(e) : e \in ServiceExceptions}

RetryInit ==
    /\ settings \in SettingsSpace
    /\ pc = [t \in Threads |-> "wrapper"]
    /\ store = [t \in Threads |-> EmptyDict]
    /\ attempt = [t \in Threads |-> 0]
    /\ results = [t \in Threads |-> <<>>]
    /\ updates = [t \in Threads |-> <<>>]
    /\ events = [t \in Threads |-> <<>>]
    /\ response = NoReply
    /\ delay = [t \in Threads |-> settings.RETRY_DELAY]
    /\ slept = [t \in Threads |-> <<>>]
    /\ outcome = [t \in Threads |-> NoOutcome]
    /\ embeddings_cache = EmptyCache
    /\ kb_call = NoCall(<<>>, 0)

\* the wrapper is entered again: `delay = initial_delay`
Call(t) ==
    /\ pc[t] \in {"returned", "raised"}
    /\ pc' = [pc EXCEPT ![t] = "wrapper"]
    /\ attempt' = [attempt EXCEPT ![t] = 0]
    /\ delay' = [delay EXCEPT ![t] = settings.RETRY_DELAY]
    /\ slept' = [slept EXCEPT ![t] = <<>>]
    /\ outcome' = [outcome EXCEPT ![t] = NoOutcome]
    /\ UNCHANGED <<store, results, updates, events, response, settings,
                   embeddings_cache, kb_call>>

\* the iteration that ends the wrapper: func's value is returned, or an
\* exception leaves the wrapper
Return(t, result) ==
    /\ pc[t] = "wrapper"
    /\ LET call == WrapperStep(t, result)
       IN  /\ call.kind # "retry"
           /\ pc' = [pc EXCEPT ![t] = IF call.kind = "return" THEN "returned" ELSE "raised"]
           /\ outcome' = [outcome EXCEPT ![t] =
                             [kind |-> call.kind, value |-> call.value, exc |-> call.exc]]
           /\ delay' = [delay EXCEPT ![t] = call.delay]
           /\ slept' = [slept EXCEPT ![t] = @ \o call.sleep]
    /\ UNCHANGED <<store, attempt, results, updates, events, response, settings,
                   embeddings_cache, kb_call>>

RetryNext ==
    \E t \in Threads :
        \/ Call(t)
        \/ \E r \in FuncResults : Retry(t, r)
        \/ \E r \in FuncResults : Return(t, r)

RetrySpec == RetryInit /\ [][RetryNext]_vars

\* ---------------------------------------------- direct calls of kb.search
\* One process, one KnowledgeBase object, whose file holds up to MaxEntries
\* entries, each with the text of one of the two known issues and an id of its
\* own.  search is called again and again, with one top_k and with a query that
\* is the text of an entry or some other text, and the embedding service
\* answers every request of a call or fails one of them.
EntryId(i) == "KB-00" \o ToString(i)
KBSpace ==
    UNION { { [i \in 1..n |-> [KnownIssues[kind[i]] EXCEPT !.id = EntryId(i)]] :
                kind \in [1..n -> {1, 2}] } : n \in 0..MaxEntries }
TopKSpace == (0 - 1)..MaxEntries
QuerySpace == {<<"q">>, build_entry_text(KnownIssues[1])}

SearchInit ==
    /\ kb_call \in {NoCall(kb_entries, top_k) : kb_entries \in KBSpace, top_k \in TopKSpace}
    /\ embeddings_cache = EmptyCache
    /\ settings = DevelopmentSettings
    /\ pc = [t \in Threads |-> "kb"]
    /\ store = [t \in Threads |-> EmptyDict]
    /\ attempt = [t \in Threads |-> 0]
    /\ results = [t \in Threads |-> <<>>]
    /\ updates = [t \in Threads |-> <<>>]
    /\ events = [t \in Threads |-> <<>>]
    /\ response = NoReply
    /\ delay = [t \in Threads |-> settings.RETRY_DELAY]
    /\ slept = [t \in Threads |-> <<>>]
    /\ outcome = [t \in Threads |-> NoOutcome]

Failed(requests) == \E i \in 1..Len(requests) : ~requests[i].ok

\* kb.search(query, top_k) is called and returns
Search(query, service) ==
    /\ LET call == search(embeddings_cache, kb_call.kb_entries, query,
                          kb_call.top_k, service)
       IN  /\ embeddings_cache' = call.cache
           /\ kb_call' =
                 [kb_call EXCEPT
                    !.query = query, !.service = service,
                    !.cache = embeddings_cache,
                    !.requests = call.requests,
                    !.results = call.results,
                    !.returned = TRUE,
                    !.repeated = /\ kb_call.returned
                                 /\ kb_call.query = query
                                 /\ ~Failed(kb_call.requests)]
    /\ UNCHANGED <<pc, store, attempt, results, updates, events, response,
                   settings, delay, slept, outcome>>

ServiceSpace(n) == {[i \in 1..n |-> i # k] : k \in 0..n}

SearchNext ==
    \E query \in QuerySpace :
        \E service \in ServiceSpace(1 + Len(kb_call.kb_entries)) :
            Search(query, service)

SearchSpec == SearchInit /\ [][SearchNext]_vars

\* ------------------------------------------------------------- app/main.py
\* The API over a store of two thread ids.  A request names any thread id: one
\* of the store's, one the store never holds, or the empty string.
ApiThreads == {1, 2}
NoThreadId == 0
UnknownThreadId == 3
RequestIds == ApiThreads \cup {NoThreadId, UnknownThreadId}

ApiTickets == {ShortTicket}
ApiDetails == {<<"d">>, <<" ">>}
\* the knowledge base holds one entry; the embedding service answers every
\* request of a search, or it fails the first one
ApiSearchEnvs ==
    { [kb_entries |-> <<KnownIssues[1]>>, service |-> <<TRUE, TRUE>>],
      [kb_entries |-> <<KnownIssues[1]>>, service |-> <<FALSE, TRUE>>] }
ApiAnalyzeResults ==
    {Responded([content |-> c, tool_calls |-> <<>>]) :
        c \in {<<PROCEED>>, <<NEED_MORE_INFO, "q">>}}
    \cup {Threw("RateLimitError")}
ApiClassifyResults ==
    {Responded([content |-> EmptyText, tool_calls |-> ToolCall(ValidNew)]),
     Threw("RateLimitError")}

\* the endpoint raises: nothing but the reply changes
Reject(reply) ==
    /\ response' = reply
    /\ UNCHANGED <<pc, store, attempt, results, updates, events,
                   settings, delay, slept, outcome, embeddings_cache, kb_call>>

\* a suspended workflow is persisted under thread_id
HasSuspended(thread_id) == thread_id \in DOMAIN pc /\ pc[thread_id] = "suspended"

\* POST /triage/resume testing additional_details without stripping it
resume_ticket_triage_unstripped(thread_id, additional_details) ==
    IF thread_id = NoThreadId
    THEN Reject(HTTPException("resume", 400, "thread_id is required"))
    ELSE IF ~Truthy(additional_details)
    THEN Reject(HTTPException("resume", 400, "additional_details cannot be empty"))
    ELSE IF HasSuspended(thread_id)
    THEN Resume(thread_id, additional_details)
    ELSE Reject(HTTPException("resume", 500, "UnknownThreadError"))

\* POST /triage/resume.  resume_with_details fails with the unknown-thread error
\* when no suspended workflow exists for thread_id; the handler's
\* `except Exception` turns whatever the call raises into a 500.
resume_ticket_triage(thread_id, additional_details) ==
    IF thread_id = NoThreadId
    THEN Reject(HTTPException("resume", 400, "thread_id is required"))
    ELSE IF ~Truthy(strip(additional_details))
    THEN Reject(HTTPException("resume", 400, "additional_details cannot be empty"))
    ELSE IF HasSuspended(thread_id)
    THEN Resume(thread_id, additional_details)
    ELSE Reject(HTTPException("resume", 500, "UnknownThreadError"))

ApiInit ==
    /\ pc = [t \in ApiThreads |-> "none"]
    /\ store = [t \in ApiThreads |-> EmptyDict]
    /\ attempt = [t \in ApiThreads |-> 0]
    /\ results = [t \in ApiThreads |-> <<>>]
    /\ updates = [t \in ApiThreads |-> <<>>]
    /\ events = [t \in ApiThreads |-> <<>>]
    /\ response = NoReply
    /\ settings = DevelopmentSettings
    /\ delay = [t \in ApiThreads |-> settings.RETRY_DELAY]
    /\ slept = [t \in ApiThreads |-> <<>>]
    /\ outcome = [t \in ApiThreads |-> NoOutcome]
    /\ embeddings_cache = EmptyCache
    /\ kb_call = NoCall(<<>>, 0)

ApiNext ==
    \/ \E t \in ApiThreads :
          \/ \E d \in ApiTickets : StartTriage(t, d)
          \/ \E env \in ApiSearchEnvs : SearchKb(t, env)
          \/ \E r \in ApiAnalyzeResults \cup ApiClassifyResults : Retry(t, r)
          \/ \E r \in ApiAnalyzeResults : Analyze(t, r)
          \/ \E r \in ApiClassifyResults : Classify(t, r)
    \/ \E id \in RequestIds, d \in ApiDetails : resume_ticket_triage(id, d)

ApiSpec == ApiInit /\ [][ApiNext]_vars

\* POST /triage/stream rejecting a description of the maximum length as well
triage_ticket_stream_below_max(t, description) ==
    IF ~Truthy(strip(description))
    THEN Reject(HTTPException("triage_stream", 400, "Description cannot be empty"))
    ELSE IF Len(description) >= settings.MAX_DESCRIPTION_LENGTH
    THEN Reject(HTTPException("triage_stream", 400, "Description too long"))
    ELSE StartTriage(t, description)

\* POST /triage/stream: the description is validated, then the agent's stream
\* is returned; t is the thread the stream runs as.
triage_ticket_stream(t, description) ==
    IF ~Truthy(strip(description))
    THEN Reject(HTTPException("triage_stream", 400, "Description cannot be empty"))
    ELSE IF Len(description) > settings.MAX_DESCRIPTION_LENGTH
    THEN Reject(HTTPException("triage_stream", 400, "Description too long"))
    ELSE StartTriage(t, description)

\* The descriptions sent to POST /triage/stream: a short one, an empty one,
\* one of white space only, one of the maximum length and one a character
\* longer.
StreamTickets ==
    {ShortTicket, EmptyText, <<" ", "\n">>,
     LongTicket(MAX_DESCRIPTION_LENGTH), LongTicket(MAX_DESCRIPTION_LENGTH + 1)}

\* The search_kb node of thread t on a knowledge-base file whose first entry
\* has no title: search embeds the query (answered tells whether the service
\* answers), then _build_entry_text raises KeyError('title'), which nothing
\* catches before the except clause of triage_stream: the stream ends with an
\* error event.
SearchKbRaises(t, answered) ==
    /\ pc[t] = "search_kb"
    /\ LET query == search_query(store[t])
       IN  embeddings_cache' =
              get_embedding(embeddings_cache, query,
                            IF answered THEN Embed(query) ELSE Unavailable).cache
    /\ pc' = [pc EXCEPT ![t] = "failed"]
    /\ events' = [events EXCEPT ![t] = Append(@, ErrorEvent("'title'"))]
    /\ UNCHANGED <<store, attempt, results, updates, response, settings,
                   delay, slept, outcome, kb_call>>

\* The requests sent to POST /triage/resume: the thread id of the store, one
\* the store never holds or the empty string, with details that are a text,
\* blank or empty.
StreamIds == Threads \cup {NoThreadId, UnknownThreadId}
StreamDetails == ApiDetails \cup {EmptyText, <<" ", "\n">>}

\* The two endpoints over a store of one thread id.
StreamNext ==
    \/ \E t \in Threads :
          \/ \E d \in StreamTickets : triage_ticket_stream(t, d)
          \/ \E env \in ApiSearchEnvs : SearchKb(t, env)
          \/ \E answered \in BOOLEAN : SearchKbRaises(t, answered)
          \/ \E r \in ApiAnalyzeResults \cup ApiClassifyResults : Retry(t, r)
          \/ \E r \in ApiAnalyzeResults : Analyze(t, r)
          \/ \E r \in ApiClassifyResults : Classify(t, r)
    \/ \E id \in StreamIds, d \in StreamDetails : resume_ticket_triage(id, d)

StreamSpec == Init /\ [][StreamNext]_vars

\* ------------------------------------------------------- reading the state
Messages(t) == Get(store[t], "messages", <<>>)
LastMessage(t) == Messages(t)[Len(Messages(t))]
TicketText(t) == Messages(t)[1].content
NeedsMoreInfo(t) == Get(store[t], "needs_more_info", FALSE)
AdditionalDetails(t) == Get(store[t], "additional_details", EmptyText)
InterruptQuestion(t) == Get(store[t], "interrupt_question", EmptyText)
Classification(t) == Get(store[t], "classification", EmptyDict)
HumanMessages(t) == {i \in 1..Len(Messages(t)) : Messages(t)[i].type = "human"}
\* the invocation of thread t is the one started by a resume call
Resumed(t) == Cardinality(HumanMessages(t)) > 1

BranchState(n, d) ==
    [k \in (IF n = "absent" THEN {} ELSE {"needs_more_info"})
           \cup (IF d = "absent" THEN {} ELSE {"additional_details"}) |->
        IF k = "needs_more_info" THEN n = "true"
        ELSE IF d = "empty" THEN EmptyText ELSE <<"d">>]

\* C2: should_interrupt answers "interrupt" exactly for needs_more_info true
\* with additional_details absent or empty, over every combination of the two
\* fields (absent ones included); and in the pipeline the invocation is
\* suspended after analyze exactly in that case, else it goes to classify.
BranchRule ==
    /\ \A n \in {"absent", "true", "false"}, d \in {"absent", "empty", "text"} :
          (should_interrupt(BranchState(n, d)) = "interrupt")
              <=> (n = "true" /\ d \in {"absent", "empty"})
    /\ \A t \in Threads :
          /\ pc[t] = "suspended" => (NeedsMoreInfo(t) /\ AdditionalDetails(t) = EmptyText)
          /\ pc[t] = "classify" => ~(NeedsMoreInfo(t) /\ AdditionalDetails(t) = EmptyText)

\* a first invocation that took the suspend branch
BranchRuleWitness ==
    \E t \in Threads :
        pc[t] = "suspended" /\ NeedsMoreInfo(t) /\ "additional_details" \notin DOMAIN store[t]

\* ===================================================================== C3
\* C3: from analyze of an invocation that carries additional details the only
\* way on is classify, whatever the completion service answers; that
\* invocation reaches done; and a thread never holds more than two user
\* messages (the ticket and one clarification), so it was suspended at most
\* once.
ResumeNeverResuspends ==
    /\ [][\A t \in Threads :
            (pc[t] = "analyze" /\ Truthy(AdditionalDetails(t)) /\ pc'[t] # "analyze")
                => pc'[t] = "classify"]_vars
    /\ \A t \in Threads :
            (pc[t] = "analyze" /\ Truthy(AdditionalDetails(t))) ~> (pc[t] = "done")
    /\ [](\A t \in Threads : Cardinality(HumanMessages(t)) <= 2)

\* the resumed analyze asked again and the invocation went on to classify
ResumeNeverResuspendsWitness ==
    \E t \in Threads :
        pc[t] = "classify" /\ NeedsMoreInfo(t) /\ Truthy(AdditionalDetails(t))

\* ===================================================================== C4
\* the text after the NEED_MORE_INFO: prefix of an answer
QuestionText(content) == strip(Tail(strip(content)))

\* C4: when analyze of a first invocation is answered NEED_MORE_INFO: <text>,
\* needs_more_info becomes true, interrupt_question becomes <text>, and the
\* invocation ends suspended with classify not run and classification empty.
NeedMoreInfoSuspends ==
    [][\A t \in Threads : \A c \in AnalyzeContents :
          ( /\ Analyze(t, Responded([content |-> c, tool_calls |-> <<>>]))
            /\ ~Truthy(AdditionalDetails(t))
            /\ startswith(strip(c), NEED_MORE_INFO) )
          => ( /\ store'[t]["needs_more_info"] = TRUE
               /\ store'[t]["interrupt_question"] = QuestionText(c)
               /\ pc'[t] = "suspended"
               /\ updates'[t] = <<"search_kb", "analyze">>
               /\ store'[t]["classification"] = EmptyDict )]_vars

\* ===================================================================== C5
\* C5: when the last attempt allowed to analyze fails with a retryable error,
\* the node sets needs_more_info to false and the invocation goes on to
\* classify: it neither suspends nor fails.
AnalyzeExhaustionProceeds ==
    [][\A t \in Threads : \A e \in RetryableExceptions :
          (attempt[t] = MAX_RETRIES /\ Analyze(t, Threw(e)))
          => ( /\ store'[t]["needs_more_info"] = FALSE
               /\ pc'[t] = "classify" )]_vars

\* analyze has degraded to PROCEED after the retries and classify is next
AnalyzeExhaustionWitness ==
    \E t \in Threads :
        /\ pc[t] = "classify"
        /\ startswith(LastMessage(t).content, "Error analyzing ticket: ")
        /\ ~NeedsMoreInfo(t)

\* ===================================================================== C6
\* C6: classify never ends an invocation with an exception, and an invocation
\* that is done holds a non-empty classification.
ClassifyAlwaysClassifies ==
    \A t \in Threads :
        /\ pc[t] # "failed"
        /\ pc[t] = "done" => Classification(t) # EmptyDict

\* ===================================================================== C7
Bug == <<"Bug">>
Medium == <<"Medium">>
NewIssue == <<"new_issue">>
KnownIssue == <<"known_issue">>

\* the cases of the fallback: the wrapper gave up on a retryable error, or the
\* response carries no tool call
RetriesExhausted(t, r) == ~r.ok /\ r.exc.type \in RetryableExceptions /\ attempt[t] = MAX_RETRIES
NoToolCall(r) == r.ok /\ r.value.tool_calls = <<>>

\* the ticket text followed, when the state carries additional details, by the
\* separator and the details
TicketAndDetails(t) ==
    IF AdditionalDetails(t) = EmptyText THEN TicketText(t)
    ELSE TicketText(t) \o DETAILS_SEP \o AdditionalDetails(t)

FirstChars(text, n) == [i \in 1..(IF Len(text) < n THEN Len(text) ELSE n) |-> text[i]]

FallbackFields(c) ==
    /\ DOMAIN c = ClassificationKeys
    /\ c["category"] = Bug
    /\ c["severity"] = Medium
    /\ c["issue_type"] = NewIssue
    /\ c["next_action"][1] = MANUAL_REVIEW

ClassificationWellFormed ==
    \A t \in Threads : pc[t] = "done" => ValidClassification(Classification(t))

\* ===================================================================== C9
\* kb.search found a result scoring above the threshold
TopScoreAboveThreshold(t) ==
    results[t] # <<>> /\ results[t][1].score > KNOWN_THRESHOLD

\* C9: the issue_type of the classification of a finished invocation is
\* known_issue exactly when the top search result of the invocation scores
\* strictly above 0.5 (it is new_issue when the search returned nothing).
IssueTypeFollowsScore ==
    \A t \in Threads :
        (pc[t] = "done" /\ "issue_type" \in DOMAIN Classification(t))
        => /\ Classification(t)["issue_type"] \in IssueTypes
           /\ (Classification(t)["issue_type"] = KnownIssue) <=> TopScoreAboveThreshold(t)

\* ==================================================================== C10
\* C10: a response to classify without a tool call whose raw text parses as
\* the five-field schema gives that parsed result as the classification.
RawTextIsParsed ==
    [][\A t \in Threads : \A r \in ClassifyResults :
          (Classify(t, r) /\ NoToolCall(r) /\ parse_response(r.value).ok)
          => store'[t]["classification"] = parse_response(r.value).value]_vars

UnknownThreadRequest(id, d) ==
    id # NoThreadId /\ Truthy(strip(d)) /\ ~HasSuspended(id)

\* C12: a resume call whose thread id has no suspended workflow is answered
\* with a client error (a 4xx status) and changes nothing in the store: no
\* record is created and no thread's record is modified.
UnknownThreadRejected ==
    [][\A id \in RequestIds : \A d \in ApiDetails :
          (UnknownThreadRequest(id, d) /\ resume_ticket_triage(id, d))
          => ( /\ response'.status \in 400..499
               /\ store' = store
               /\ pc' = pc )]_vars

\* ==================================================================== C13
\* C13: the stream of a call to start_triage begins with a status event that
\* carries the thread id minted for the call, every interrupt event of the
\* stream carries the same thread id, and the state of the call is the record
\* the store holds under that id.
StreamCarriesThreadId ==
    \A t \in Threads :
        (pc[t] # "none" /\ ~Resumed(t))
        => /\ Len(events[t]) > 0
           /\ events[t][1].type = "status"
           /\ "thread_id" \in DOMAIN events[t][1]
           /\ events[t][1]["thread_id"] = t
           /\ \A i \in 1..Len(events[t]) :
                 events[t][i].type = "interrupt"
                 => ("thread_id" \in DOMAIN events[t][i] /\ events[t][i]["thread_id"] = t)
           /\ HasMessages(store[t])

\* ==================================================================== C14
\* the step is the iteration of the wrapper of thread t in which func did r
Iteration(t, r) == pc[t] = "wrapper" /\ (Retry(t, r) \/ Return(t, r))

Retryable(r) == ~r.ok /\ r.exc.type \in RetryableExceptions

\* C14: the wrapper calls func at most max_retries + 1 times (attempt counts
\* the calls that failed before the current one); an attempt that succeeds
\* ends the call with that attempt's result; a retryable failure of the last
\* attempt allowed ends it with one LLMError whose cause is that failure, and
\* a retryable failure of an earlier attempt leads to one more attempt.
RetryBounded ==
    /\ [](\A t \in Threads : attempt[t] <= settings.MAX_RETRIES)
    /\ [][\A t \in Threads : \A r \in FuncResults :
            Iteration(t, r)
            => /\ r.ok => /\ pc'[t] = "returned"
                          /\ outcome'[t].kind = "return"
                          /\ outcome'[t].value = r.value
                          /\ attempt'[t] = attempt[t]
               /\ (Retryable(r) /\ attempt[t] = settings.MAX_RETRIES)
                    => /\ pc'[t] = "raised"
                       /\ outcome'[t].kind = "raise"
                       /\ outcome'[t].exc.type = "LLMError"
                       /\ outcome'[t].exc.cause = r.exc.type
                       /\ attempt'[t] = attempt[t]
               /\ (Retryable(r) /\ attempt[t] < settings.MAX_RETRIES)
                    => /\ pc'[t] = "wrapper"
                       /\ attempt'[t] = attempt[t] + 1
                       /\ outcome'[t] = NoOutcome]_vars

\* the LLMError of a call whose max_retries + 1 attempts all failed, with at
\* least two retries
RetryBoundedWitness ==
    \E t \in Threads :
        /\ pc[t] = "raised"
        /\ outcome[t].exc.type = "LLMError"
        /\ outcome[t].exc.cause = "APITimeoutError"
        /\ attempt[t] = settings.MAX_RETRIES
        /\ attempt[t] >= 2

\* ==================================================================== C15
TransientErrors == {"RateLimitError", "APITimeoutError", "APIConnectionError"}

\* C15: the wrapper goes round again only after a rate-limit, timeout or
\* connection failure; any other failure of the service ends the call at the
\* attempt where it happens, so a first attempt that fails with one is the only
\* attempt.
OnlyTransientRetried ==
    [][\A t \in Threads : \A r \in FuncResults :
          (Iteration(t, r) /\ ~r.ok /\ r.exc.type \notin TransientErrors)
          => /\ pc'[t] = "raised"
             /\ attempt'[t] = attempt[t]]_vars

\* ==================================================================== C16
\* C16: an exception outside the retryable set leaves the wrapper at the
\* attempt where it is raised, as the same exception (not an LLMError), with
\* no further attempt and no sleep.
UnexpectedPropagates ==
    [][\A t \in Threads : \A r \in FuncResults :
          (Iteration(t, r) /\ ~r.ok /\ r.exc.type \notin RetryableExceptions)
          => /\ pc'[t] = "raised"
             /\ outcome'[t].kind = "raise"
             /\ outcome'[t].exc = r.exc
             /\ attempt'[t] = attempt[t]
             /\ slept'[t] = slept[t]]_vars

\* a ValueError left the wrapper after two retries of retryable failures
UnexpectedPropagatesWitness ==
    \E t \in Threads :
        /\ pc[t] = "raised"
        /\ outcome[t].exc.type = "ValueError"
        /\ attempt[t] = 2
        /\ Len(slept[t]) = 2

\* ==================================================================== C17
RECURSIVE Pow(_, _)
Pow(b, n) == IF n = 0 THEN 1 ELSE b * Pow(b, n - 1)

\* C17: at every point of a call of the wrapper, the sleeps made so far are
\* one per failed attempt that was followed by another attempt, the i-th of
\* initial_delay * backoff_factor^(i-1); a call that has ended after n attempts
\* has slept n-1 times, whether the last attempt succeeded or failed.
BackoffDelays ==
    \A t \in Threads :
        pc[t] \in {"wrapper", "returned", "raised"}
        => slept[t] = [i \in 1..attempt[t] |->
                          settings.RETRY_DELAY * Pow(settings.RETRY_BACKOFF, i - 1)]

\* retries were exhausted with a backoff factor of 3: the sleeps are 500, 1500
\* and 4500 ms and none follows the last failure
BackoffDelaysWitness ==
    \E t \in Threads :
        /\ pc[t] = "raised"
        /\ outcome[t].exc.type = "LLMError"
        /\ slept[t] = <<500, 1500, 4500>>

\* ==================================================================== C18
\* C18: an exception other than the LLMError of exhausted retries, raised
\* inside analyze or classify, leaves the stage: the invocation fails, with no
\* PROCEED and no fallback classification written to the state.
OnlyLLMErrorIsAbsorbed ==
    [][\A t \in Threads : \A r \in AnalyzeResults \cup ClassifyResults :
          ( /\ Analyze(t, r) \/ Classify(t, r)
            /\ ~r.ok
            /\ r.exc.type \notin RetryableExceptions )
          => ( /\ pc'[t] = "failed"
               /\ store'[t] = store[t] )]_vars

\* ==================================================================== C19
\* C19: every step leaves the messages a thread had as an initial part of the
\* messages it has afterwards; a submitted ticket becomes the only message of
\* its thread, so the first message of a thread is the ticket text from then
\* on, through every stage and through the resumed invocation.
MessagesAppendOnly ==
    /\ [][\A t \in Threads :
            IsPrefix(Messages(t), Get(store'[t], "messages", <<>>))]_vars
    /\ [][\A t \in Threads : \A d \in Tickets :
            StartTriage(t, d) => store'[t]["messages"] = <<HumanMessage(d)>>]_vars
    /\ [](\A t \in Threads :
            pc[t] # "none"
            => /\ Len(Messages(t)) > 0
               /\ Messages(t)[1].type = "human"
               /\ Messages(t)[1].content \in Tickets)

\* a resumed invocation is done: the thread holds the messages of two
\* invocations behind the ticket
MessagesAppendOnlyWitness ==
    \E t \in Threads :
        /\ pc[t] = "done"
        /\ Resumed(t)
        /\ Len(Messages(t)) = 7
        /\ Messages(t)[1] = HumanMessage(ShortTicket)

\* ==================================================================== C20
\* the messages analyze appends
AskMessage(m) ==
    m.type = "ai"
    /\ startswith(m.content,
           "I need more information to properly classify this ticket.\n\nQuestion: ")
AnalyzeMessage(m) ==
    \/ AskMessage(m)
    \/ m.type = "ai"
       /\ \/ m.content = <<"Proceeding with classification...">>
          \/ startswith(m.content, "Error analyzing ticket: ")
          \/ m.content =
               <<"An error occurred during analysis. Proceeding with classification...">>

\* the most recent analyze of thread t asked a question and no resume call has
\* supplied details since
AskedAndNotAnswered(t) ==
    \E i \in 1..Len(Messages(t)) :
        /\ AskMessage(Messages(t)[i])
        /\ \A j \in (i + 1)..Len(Messages(t)) :
              ~AnalyzeMessage(Messages(t)[j]) /\ Messages(t)[j].type # "human"

\* C20: needs_more_info is true only if the most recent analyze of the thread
\* answered NEED_MORE_INFO and no resume call has supplied details since; it is
\* false before the first analyze and wherever a classification has been
\* produced.
NeedsMoreInfoOnlyWhileAsking ==
    \A t \in Threads :
        /\ NeedsMoreInfo(t) => AskedAndNotAnswered(t)
        /\ (\A i \in 1..Len(Messages(t)) : ~AnalyzeMessage(Messages(t)[i]))
              => ~NeedsMoreInfo(t)
        /\ Classification(t) # EmptyDict => ~NeedsMoreInfo(t)

\* ==================================================================== C21
\* C21: interrupt_question is non-empty only while the workflow is suspended:
\* it is empty until analyze asks, and it is empty again once the resumed
\* invocation has passed analyze (at classify and when done).  Between the
\* resume call and the answer of the resumed analyze the claim leaves it open.
QuestionOnlyWhileSuspended ==
    \A t \in Threads :
        Truthy(InterruptQuestion(t))
        => \/ pc[t] = "suspended"
           \/ Resumed(t) /\ pc[t] \in {"search_kb", "analyze"}

\* ==================================================================== C22
\* C22: the classification of a thread is empty in every state before classify
\* has completed (after creation, after search, after analyze, while suspended
\* and through the resumed invocation up to classify), and no step but the
\* completion of classify changes it.
ClassificationOnlyByClassify ==
    /\ [](\A t \in Threads : pc[t] # "done" => Classification(t) = EmptyDict)
    /\ [][\A t \in Threads :
            Classification(t) # Get(store'[t], "classification", EmptyDict)
            => (pc[t] = "classify" /\ pc'[t] = "done")]_vars

\* a resumed invocation stands before classify with the classification still
\* empty, after an analyze that ended with an unexpected exception
ClassificationOnlyByClassifyWitness ==
    \E t \in Threads :
        /\ pc[t] = "classify"
        /\ Resumed(t)
        /\ LastMessage(t).content =
              <<"An error occurred during analysis. Proceeding with classification...">>
        /\ Classification(t) = EmptyDict

\* ==================================================================== C23
\* The record the store keeps for a thread id.
Record(t) == [pc |-> pc[t], store |-> store[t]]

\* A thread run alone, in a process of its own: its record and the cache of
\* the process.  AloneNode is the outcome of a node, AloneSucc the steps of the
\* thread from one state, AloneStates all the states it reaches.
AloneNode(a, node, r, cache) ==
    IF r.raised THEN [pc |-> "failed", store |-> a.store, cache |-> cache]
    ELSE LET state == apply_update(a.store, r.update)
         IN  [pc |-> next_stage(node, state), store |-> state, cache |-> cache]

\* the ways a completion call can end, with attempts left or not
FinalCalls(service_results) ==
    {c \in {wrapper(MAX_RETRIES, RETRY_BACKOFF, n, RETRY_DELAY, r) :
                n \in 0..MAX_RETRIES, r \in service_results} : c.kind # "retry"}

AloneSucc(a) ==
    CASE a.pc = "search_kb" ->
           {LET call == search(a.cache, env.kb_entries, search_query(a.store),
                               3, env.service)
            IN  AloneNode(a, "search_kb", search_kb_node(a.store, call.results),
                          call.cache) : env \in ApiSearchEnvs}
      [] a.pc = "analyze" ->
           {AloneNode(a, "analyze", analyze_node(a.store, c), a.cache) :
               c \in FinalCalls(ApiAnalyzeResults)}
      [] a.pc = "classify" ->
           {AloneNode(a, "classify", classify_node(a.store, c), a.cache) :
               c \in FinalCalls(ApiClassifyResults)}
      [] a.pc = "suspended" ->
           {[pc |-> entry_point,
             store |-> apply_update(a.store,
                          [additional_details |-> d, needs_more_info |-> FALSE,
                           messages |-> <<HumanMessage(d)>>]),
             cache |-> a.cache] : d \in {x \in ApiDetails : Truthy(strip(x))}}
      [] OTHER -> {}

\* the states reached from the states of new, seen being reached already
RECURSIVE AloneReach(_, _)
AloneReach(seen, new) ==
    IF new = {} THEN seen
    ELSE AloneReach(seen \cup new,
                    UNION {AloneSucc(a) : a \in new} \ (seen \cup new))

AloneStates ==
    AloneReach({},
               {[pc |-> "none", store |-> EmptyDict, cache |-> EmptyCache]}
               \cup {[pc |-> entry_point,
                       store |-> [messages |-> <<HumanMessage(d)>>,
                                  kb_results |-> EmptyText,
                                  classification |-> EmptyDict],
                       cache |-> EmptyCache] : d \in ApiTickets})

AloneRecords == {[pc |-> a.pc, store |-> a.store] : a \in AloneStates}

StageStep(t) ==
    /\ pc[t] \in {"search_kb", "analyze", "classify"}
    /\ pc'[t] # pc[t] \/ attempt'[t] # attempt[t]

Others(t) ==
    [u \in DOMAIN pc \ {t} |->
        <<pc[u], store[u], results[u], updates[u], events[u], attempt[u],
          delay[u], slept[u]>>]

\* cache c2 holds every text of c1, with the same vector
Extends(c2, c1) ==
    /\ DOMAIN c1 \subseteq DOMAIN c2
    /\ \A x \in DOMAIN c1 : c2[x] = c1[x]

\* C24 as stated: a stage changes the record of its own thread and nothing
\* else, no variable of the process, the embedding cache included.
StageChangesOwnRecordOnly ==
    [][\A t \in ApiThreads :
          StageStep(t) => /\ Others(t)' = Others(t)
                          /\ settings' = settings
                          /\ embeddings_cache' = embeddings_cache]_vars

\* C24, amended: a stage changes the record of its own thread, and the search
\* stage also adds to the embedding cache the vectors of texts that were not
\* cached, leaving every cached vector as it is; analyze and classify leave
\* the cache alone, and no stage changes the settings or the record of
\* another thread.
StageChangesOwnRecordAndCache ==
    [][\A t \in ApiThreads :
          StageStep(t) => /\ Others(t)' = Others(t)
                          /\ settings' = settings
                          /\ Extends(embeddings_cache', embeddings_cache)
                          /\ pc[t] # "search_kb"
                             => embeddings_cache' = embeddings_cache]_vars

\* the search of the second thread has run on a cache that held vectors
\* already and has added the vector of its own query, a resumed thread's
\* details, to it
StageChangesOwnRecordAndCacheWitness ==
    /\ pc[2] = "analyze" /\ Resumed(2)
    /\ pc[1] # "none"
    /\ LastMessage(1).type = "system"
    /\ AdditionalDetails(2) \in DOMAIN embeddings_cache
    /\ TicketText(1) \in DOMAIN embeddings_cache

\* ==================================================================== C25
\* The last call of kb.search: the entries of the file, the place of an entry
\* with a given id, the score of each entry as the loop of search computed it
\* (before the sort and the cut), and the number of results asked for.
Entries == kb_call.kb_entries
PosOf(id) == CHOOSE p \in 1..Len(Entries) : Entries[p].id = id
Scored ==
    LET q == get_embedding(kb_call.cache, kb_call.query,
                           Reply(kb_call.service, <<>>, kb_call.query))
    IN  score_entries(Entries, 1, q.vector, kb_call.service,
                      [results |-> <<>>, cache |-> q.cache,
                       requests |-> q.requests]).results
AskedFor == IF kb_call.top_k < 0 THEN 0 ELSE kb_call.top_k

\* the results are the best n entries of the file: n of them (all, if the file
\* holds fewer), each an entry of the file with its score, no entry twice,
\* scores not increasing, and no entry left out scores more than one returned
BestOf(res, n) ==
    /\ Len(res) = (IF Len(Entries) < n THEN Len(Entries) ELSE n)
    /\ \A i \in 1..Len(res) :
          /\ \E p \in 1..Len(Entries) : Entries[p].id = res[i].id
          /\ res[i] = Scored[PosOf(res[i].id)]
    /\ \A i, j \in 1..Len(res) : i < j => /\ res[i].id # res[j].id
                                            /\ res[i].score >= res[j].score
    /\ \A p \in 1..Len(Entries) :
          \/ \E i \in 1..Len(res) : res[i].id = Entries[p].id
          \/ \A i \in 1..Len(res) : res[i].score >= Scored[p].score

TiesInFileOrder ==
    kb_call.returned =>
        LET res == kb_call.results
        IN  /\ \A i, j \in 1..Len(res) :
                  (i < j /\ res[i].score = res[j].score)
                  => PosOf(res[i].id) < PosOf(res[j].id)
            /\ \A i \in 1..Len(res) : \A p \in 1..Len(Entries) :
                  (/\ Scored[p].score = res[i].score
                   /\ \A j \in 1..Len(res) : res[j].id # Entries[p].id)
                  => PosOf(res[i].id) < p

\* three entries of one score above zero competed for two places: the first
\* two of the file were returned, in the order of the file
TiesInFileOrderWitness ==
    /\ kb_call.returned
    /\ kb_call.top_k = 2 /\ Len(Entries) = 3
    /\ \A p \in 1..3 : Scored[p].score = Scored[1].score
    /\ Scored[1].score > 0
    /\ kb_call.results = <<Scored[1], Scored[2]>>

\* ==================================================================== C27
Requests == kb_call.requests
Succeeded == {i \in 1..Len(Requests) : Requests[i].ok}

\* C27 as stated: over a sequence of searches the embedding service is called
\* at most once for a text (no text is requested twice by one call, and no
\* text requested by a call is requested again by the next), and a cached
\* vector stays as it is.
ServiceCalledOncePerText ==
    /\ [](\A i, j \in 1..Len(Requests) :
             i # j => Requests[i].text # Requests[j].text)
    /\ [][/\ \A i \in 1..Len(Requests) : \A j \in 1..Len(Requests') :
                Requests[i].text # Requests'[j].text
           /\ Extends(embeddings_cache', embeddings_cache)]_vars

\* C27, amended: the service is called for a text only while the text is not
\* cached, and it answers at most one request per text: the vector it answers
\* is cached under the text itself, so that entries of one text share it, and
\* a cached vector is never requested again, changed or removed.  A request
\* that failed leaves no vector, and the text is requested again when it is
\* needed next.
ServiceAnswersOncePerText ==
    /\ [](kb_call.returned =>
            /\ \A i \in 1..Len(Requests) :
                  Requests[i].text \notin DOMAIN kb_call.cache
            /\ \A i \in Succeeded : \A j \in 1..Len(Requests) :
                  i < j => Requests[j].text # Requests[i].text
            /\ DOMAIN embeddings_cache =
                  DOMAIN kb_call.cache \cup {Requests[i].text : i \in Succeeded}
            /\ \A x \in DOMAIN embeddings_cache : embeddings_cache[x] = Embed(x))
    /\ [][Extends(embeddings_cache', embeddings_cache)]_vars

\* three entries of one text and a query of another text, on an empty cache
\* and with the service answering: two requests, one for each text
ServiceAnswersOncePerTextWitness ==
    /\ kb_call.returned
    /\ Len(Entries) = 3
    /\ \A p \in 1..3 : build_entry_text(Entries[p]) = build_entry_text(Entries[1])
    /\ kb_call.cache = EmptyCache
    /\ Len(Requests) = 2 /\ Succeeded = {1, 2}
    /\ Requests[1].text = kb_call.query
    /\ Requests[2].text = build_entry_text(Entries[1])

\* ==================================================================== C28
\* the vector a text has when no request fails: the cached one, else the one
\* the service answers
VectorOf(text) ==
    IF text \in DOMAIN kb_call.cache THEN kb_call.cache[text] ELSE Embed(text)
\* the score of the entry at place p when no request fails
ScoreWithoutFailure(p) ==
    cosine_similarity(VectorOf(kb_call.query),
                      VectorOf(build_entry_text(Entries[p])))
NoOfFailed == Cardinality({i \in 1..Len(Requests) : ~Requests[i].ok})
QueryFailed ==
    Requests # <<>> /\ Requests[1].text = kb_call.query /\ ~Requests[1].ok
    /\ kb_call.query \notin DOMAIN kb_call.cache

\* C28: a failure of the embedding service does not abort a search.  The call
\* returns its results; a failed request for the query makes every score 0,
\* a failed request for an entry makes the score of that entry 0; every other
\* entry has the score it has without the failure, and the entries returned
\* are in the order of these scores.
FailureScoresZero ==
    kb_call.returned =>
        LET res == kb_call.results
        IN  /\ Len(res) = Len(slice_to(Entries, kb_call.top_k))
            /\ QueryFailed => \A i \in 1..Len(res) : res[i].score = 0
            /\ \A p \in 1..Len(Entries) :
                  Scored[p].score \in {0, ScoreWithoutFailure(p)}
            /\ ~QueryFailed =>
                  Cardinality({p \in 1..Len(Entries) :
                      Scored[p].score # ScoreWithoutFailure(p)}) <= NoOfFailed
            /\ \A i \in 1..Len(res) : res[i] = Scored[PosOf(res[i].id)]
            /\ \A i, j \in 1..Len(res) :
                  i < j => res[i].score >= res[j].score

\* the request for the first of three entries failed: that entry has score 0
\* and comes last, behind the two others with the scores they have without
\* the failure
FailureScoresZeroWitness ==
    /\ kb_call.returned
    /\ Len(Entries) = 3 /\ kb_call.top_k = 3
    /\ NoOfFailed = 1 /\ ~QueryFailed
    /\ Len(kb_call.results) = 3
    /\ kb_call.results[3].id = Entries[1].id
    /\ kb_call.results[3].score = 0
    /\ ScoreWithoutFailure(1) > 0
    /\ \A i \in 1..2 :
          kb_call.results[i].score = ScoreWithoutFailure(PosOf(kb_call.results[i].id))
    /\ kb_call.results[2].score > 0

AcceptAtMax ==
    /\ triage_ticket_stream(1, LongTicket(settings.MAX_DESCRIPTION_LENGTH))
    /\ pc'[1] = entry_point
    /\ response' = Streaming("triage_stream")
\* an invalid description is sent and the request fails with status 400
RejectInvalid(description, detail) ==
    /\ triage_ticket_stream(1, description)
    /\ response' = HTTPException("triage_stream", 400, detail)
    /\ UNCHANGED <<pc, store>>
RejectEmpty == RejectInvalid(EmptyText, "Description cannot be empty")
RejectBlank == RejectInvalid(<<" ", "\n">>, "Description cannot be empty")
RejectLonger ==
    RejectInvalid(LongTicket(settings.MAX_DESCRIPTION_LENGTH + 1), "Description too long")

\* C30: the triage endpoint rejects a description that is empty or white
\* space only, and one longer than the configured maximum, before any stage
\* runs: the request fails with status 400 and changes nothing (no workflow
\* state, no search, no completion call, no event); a description of exactly
\* the maximum length starts a triage, and no thread ever holds a ticket that
\* is blank or longer than the maximum.
InvalidTextRejected ==
    /\ [](/\ \A t \in Threads :
                (pc[t] # "none")
                => /\ Truthy(strip(TicketText(t)))
                   /\ Len(TicketText(t)) <= settings.MAX_DESCRIPTION_LENGTH
          /\ ENABLED RejectEmpty
          /\ ENABLED RejectBlank
          /\ ENABLED RejectLonger
          /\ (pc[1] = "none") => ENABLED AcceptAtMax)
    /\ [][(/\ response' # response
            /\ response'.call = "triage_stream"
            /\ response'.status = 400)
           => UNCHANGED <<pc, store, attempt, results, updates, events,
                          delay, slept, embeddings_cache, settings>>]_vars

\* a ticket of exactly the maximum length has been accepted and searched for,
\* and a request sent since has been rejected as too long
InvalidTextRejectedWitness ==
    /\ pc[1] = "analyze"
    /\ Len(TicketText(1)) = settings.MAX_DESCRIPTION_LENGTH
    /\ TicketText(1) \in DOMAIN embeddings_cache
    /\ response = HTTPException("triage_stream", 400, "Description too long")

\* ==================================================================== C31
\* the events of a given type in the stream of thread t
EventsOfType(t, type) == {i \in 1..Len(events[t]) : events[t][i].type = type}

\* the invocation of thread t is the one of a start_triage call and has ended
FirstEnded(t, stage) == ~Resumed(t) /\ pc[t] = stage

\* the part of C31 about DONE: the stream of a start_triage call that ended
\* in done holds a classification_complete event
DoneStreamHasClassification ==
    \A t \in Threads :
        FirstEnded(t, "done") => EventsOfType(t, "classification_complete") # {}

\* C31: the stream of a start_triage call that ended suspended holds an
\* interrupt event carrying the question, and the stream of one that ended in
\* done holds a classification_complete event.
StreamTellsHowItEnded ==
    \A t \in Threads :
        /\ FirstEnded(t, "suspended")
           => \E i \in EventsOfType(t, "interrupt") :
                 /\ "question" \in DOMAIN events[t][i]
                 /\ events[t][i]["question"] = InterruptQuestion(t)
        /\ FirstEnded(t, "done")
           => EventsOfType(t, "classification_complete") # {}

\* ==================================================================== C32
\* the request fails the validation of POST /triage/resume
InvalidResume(id, d) == id = NoThreadId \/ ~Truthy(strip(d))

\* C32: a resume request with an empty thread_id, or with empty or blank
\* additional_details, is answered 400 whatever the store holds under the
\* thread id, and nothing but the reply changes.
InvalidResumeRejected ==
    [][\A id \in StreamIds : \A d \in StreamDetails :
          (InvalidResume(id, d) /\ resume_ticket_triage(id, d))
          => ( /\ response'.call = "resume"
               /\ response'.status = 400
               /\ response'.detail = (IF id = NoThreadId
                                      THEN "thread_id is required"
                                      ELSE "additional_details cannot be empty")
               /\ UNCHANGED <<pc, store, attempt, results, updates, events,
                              settings, delay, slept, outcome,
                              embeddings_cache, kb_call>> )]_vars

\* a resume request was rejected for its details while the workflow of the
\* store was suspended
InvalidResumeRejectedWitness ==
    /\ response = HTTPException("resume", 400, "additional_details cannot be empty")
    /\ \A t \in Threads : HasSuspended(t)

\* ==================================================================== C33
\* the answer, stripped, starts with the prefix NEED_MORE_INFO:
AsksForMore(content) == startswith(strip(content), NEED_MORE_INFO)

\* what the analyze stage of thread t does when the completion service
\* answers its call with the content c: the state after the node's update and
\* the stage the branch rule chooses
Answered(t, c) ==
    LET call == WrapperStep(t, Responded([content |-> c, tool_calls |-> <<>>]))
        r == analyze_node(store[t], call)
        state == apply_update(store[t], r.update)
    IN  [returned |-> call.kind = "return" /\ ~r.raised,
         state |-> state,
         stage |-> next_stage("analyze", state)]

\* C33: whenever analyze is about to run and whatever the completion service
\* answers, the stage sets needs_more_info to true exactly when the stripped
\* answer starts with NEED_MORE_INFO:, and after every other answer (PROCEED,
\* the empty text, any other text) the next stage is classify.
AnalyzeDecidesByPrefix ==
    \A t \in Threads :
        pc[t] = "analyze"
        => \A c \in AnalyzeContents :
              LET a == Answered(t, c)
              IN  /\ a.returned
                  /\ a.state["needs_more_info"] = AsksForMore(c)
                  /\ ~AsksForMore(c) => a.stage = "classify"

\* analyze of a first invocation was answered with a text that does not start
\* with the prefix, and classify is the stage about to run
AnalyzeDecidesByPrefixWitness ==
    \E t \in Threads :
        /\ pc[t] = "classify"
        /\ ~Resumed(t)
        /\ updates[t] = <<"search_kb", "analyze">>
        /\ "needs_more_info" \in DOMAIN store[t]
        /\ ~NeedsMoreInfo(t)
        /\ LastMessage(t).content = <<"Proceeding with classification...">>

\* ==================================================================== C34
\* C34: whenever an invocation has ended suspended, interrupt_question is a
\* non-empty text.
SuspendedHasQuestion ==
    \A t \in Threads :
        pc[t] = "suspended"
        => ( /\ "interrupt_question" \in DOMAIN store[t]
             /\ Truthy(InterruptQuestion(t)) )

\* ==================================================================== C35
\* the texts whose request failed in the last call and that no later request
\* of the call obtained: the texts scored with the zero vector
StillFailed ==
    {Requests[i].text : i \in {k \in 1..Len(Requests) : ~Requests[k].ok}}
    \ {Requests[i].text : i \in Succeeded}
\* the texts a call with this query needs: the query and every entry's text
Needed(query) ==
    {query} \cup {build_entry_text(Entries[p]) : p \in 1..Len(Entries)}
\* the entries whose score depends on the text
ScoredWith(x) ==
    {p \in 1..Len(Entries) : x = kb_call.query \/ x = build_entry_text(Entries[p])}
\* the service answers every request of a call
Answering == [i \in 1..(1 + Len(Entries)) |-> TRUE]
\* the scores the loop of search computes when the query of the last call is
\* searched again, on the cache as it is now and with the service answering
ScoredAgain ==
    LET q == get_embedding(embeddings_cache, kb_call.query,
                           Reply(Answering, <<>>, kb_call.query))
    IN  score_entries(Entries, 1, q.vector, Answering,
                      [results |-> <<>>, cache |-> q.cache,
                       requests |-> q.requests]).results
\* searching the same query again gives some entry scored with the text x a
\* score other than the one of the last call
CanRescore(x) ==
    LET before == Scored
        again == ScoredAgain
    IN  \E p \in ScoredWith(x) : again[p].score # before[p].score

\* C35: the cache holds only vectors the embedding service answered: none is
\* the zero vector, and a call adds the texts of its answered requests and no
\* other.  A text whose request failed is not cached, the next call that
\* needs the text requests it again, and a search of the same query can then
\* give an entry scored with the text another score.
FailureIsNotCached ==
    /\ [](kb_call.returned =>
            /\ \A x \in DOMAIN embeddings_cache :
                  embeddings_cache[x] # ZeroVector /\ embeddings_cache[x] = Embed(x)
            /\ DOMAIN embeddings_cache \ DOMAIN kb_call.cache
                  = {Requests[i].text : i \in Succeeded}
            /\ StillFailed \cap DOMAIN embeddings_cache = {}
            /\ \A x \in StillFailed : ScoredWith(x) # {} => CanRescore(x))
    /\ [][\A x \in StillFailed \cap Needed(kb_call'.query) :
             \E j \in 1..Len(kb_call'.requests) : kb_call'.requests[j].text = x]_vars

\* the request for the query failed on a file of two entries: both scored 0,
\* the query is not cached, and searching the query again with the service
\* answering scores them otherwise
FailureIsNotCachedWitness ==
    /\ kb_call.returned
    /\ QueryFailed
    /\ Len(Entries) = 2 /\ Len(kb_call.results) = 2
    /\ \A i \in 1..2 : kb_call.results[i].score = 0
    /\ kb_call.query \notin DOMAIN embeddings_cache
    /\ CanRescore(kb_call.query)

\* ==================================================================== C36
\* the events of a type that name a node, in the stream of thread t
NodeEvents(t, type, node) ==
    {i \in EventsOfType(t, type) : events[t][i].node = node}
\* the type of the event that carries the result of a stage
DataType(node) ==
    CASE node = "search_kb" -> "kb_search_complete"
      [] node = "classify" -> "classification_complete"
      [] OTHER -> "none"
\* the events that end a stream
FinalStatus(t) ==
    {i \in EventsOfType(t, "status") : events[t][i].message = "Triage complete"}
Ending(t) == FinalStatus(t) \cup EventsOfType(t, "error")
\* the invocation of thread t is over
Ended(t) == pc[t] \in {"suspended", "done", "failed"}
\* the only element of a set of one element
The(S) == CHOOSE i \in S : TRUE

\* the k-th stage executed by thread t has one node_start and one
\* node_complete event, the start before the completion, and the event that
\* carries its result lies between them
GroupInOrder(t, k) ==
    LET node == updates[t][k]
        starts == NodeEvents(t, "node_start", node)
        completes == NodeEvents(t, "node_complete", node)
        data == EventsOfType(t, DataType(node))
    IN  /\ Cardinality(starts) = 1 /\ Cardinality(completes) = 1
        /\ The(starts) < The(completes)
        /\ DataType(node) # "none"
           => /\ Cardinality(data) = 1
              /\ The(starts) < The(data) /\ The(data) < The(completes)
        /\ k > 1 => The(NodeEvents(t, "node_complete", updates[t][k - 1]))
                       < The(starts)

\* C36: in the stream of triage_stream the first event is a status event;
\* each stage executed has its node_start event before the event carrying
\* its result (kb_search_complete, classification_complete) and that one
\* before its node_complete event; the groups of the stages follow the order
\* of execution and no other stage has events; a stream that is over ends
\* with one event that is either the status "Triage complete" or an error
\* event, and holds no other such event; a running one holds none.
StreamWellFormed ==
    \A t \in Threads :
        (pc[t] # "none" /\ ~Resumed(t))
        => /\ Len(events[t]) > 0
           /\ events[t][1].type = "status"
           /\ IsPrefix(updates[t], <<"search_kb", "analyze", "classify">>)
           /\ \A k \in 1..Len(updates[t]) : GroupInOrder(t, k)
           /\ Cardinality(EventsOfType(t, "node_start")) = Len(updates[t])
           /\ Cardinality(EventsOfType(t, "node_complete")) = Len(updates[t])
           /\ Ending(t) = (IF Ended(t) THEN {Len(events[t])} ELSE {})

\* a start_triage call ran its three stages: three groups of events and the
\* final status, no error event
StreamWellFormedWitness ==
    \E t \in Threads :
        /\ pc[t] = "done" /\ ~Resumed(t)
        /\ updates[t] = <<"search_kb", "analyze", "classify">>
        /\ \A k \in 1..3 : GroupInOrder(t, k)
        /\ FinalStatus(t) = {Len(events[t])}
        /\ EventsOfType(t, "error") = {}
====
